---- MODULE Spec2Model ----
(***************************************************************************)
(* Struct <-> Entry mapping of the ldap package: Encode / Decode, the tag  *)
(* resolver parseTag, the identity check hasDN and the type coercions.     *)
(*                                                                         *)
(* Text (Go string and []byte content) is a sequence of one-character      *)
(* strings.  A Go value is a record tagged by its kind k:                  *)
(*   string  [k, s]            int   [k, i]          bool [k, b]           *)
(*   bytes   [k, nil, s]       ptr   [k, nil, elem]  (pointer to a scalar) *)
(*   slice   [k, nil, et, elems]     ([]string, []int)                     *)
(*   binenc  [k, wantErr, Value]     (struct with pointer-receiver         *)
(*                                    Encode/Decode, as in the tests)      *)
(*   map     [k]                     (a kind with no coercion rule)        *)
(*   struct  [k, fields]             (a record; anonymous when embedded)   *)
(* A struct field is [Name, Tag, Anonymous, v]; Tag is [ok, t], the result *)
(* of looking the "ldap" key up in the field's tag.                        *)
(* Records of the model implement neither Marshaler nor Unmarshaler, so   *)
(* Encode and Decode always take the field-by-field path.                  *)
(***************************************************************************)
EXTENDS Integers, Sequences, FiniteSets, TLC

\* ------------------------------------------------------------------ bounds

\* longest record: number of leaf fields, embedded ones included
MaxFields == 2
\* longest list held by a slice field
MaxElems == 2
\* most values an attribute of a hand-built Entry holds
MaxVals == 2

\* the most elements of a slice handed to a batch helper
MaxBatch == 2

\* ------------------------------------------------------------------ text

UpperChars ==
  <<"A","B","C","D","E","F","G","H","I","J","K","L","M",
    "N","O","P","Q","R","S","T","U","V","W","X","Y","Z">>

LowerChars ==
  <<"a","b","c","d","e","f","g","h","i","j","k","l","m",
    "n","o","p","q","r","s","t","u","v","w","x","y","z">>

Digits == <<"0","1","2","3","4","5","6","7","8","9">>

IsUpper(c) == \E i \in DOMAIN UpperChars : UpperChars[i] = c

IsLowerChar(c) == \E i \in DOMAIN LowerChars : LowerChars[i] = c

ToLowerRune(c) ==
  IF IsUpper(c)
  THEN LowerChars[CHOOSE i \in DOMAIN UpperChars : UpperChars[i] = c]
  ELSE c

ToUpperRune(c) ==
  IF IsLowerChar(c)
  THEN UpperChars[CHOOSE i \in DOMAIN LowerChars : LowerChars[i] = c]
  ELSE c

ToLower(s) == [i \in 1..Len(s) |-> ToLowerRune(s[i])]

ToUpper(s) == [i \in 1..Len(s) |-> ToUpperRune(s[i])]

RECURSIVE TrimLeft(_)
TrimLeft(s) ==
  IF s # <<>> /\ Head(s) = " " THEN TrimLeft(Tail(s)) ELSE s

RECURSIVE TrimRight(_)
TrimRight(s) ==
  IF s # <<>> /\ s[Len(s)] = " " THEN TrimRight(SubSeq(s, 1, Len(s) - 1)) ELSE s

TrimSpace(s) == TrimRight(TrimLeft(s))

\* strings.Split(s, ","): the pieces between the commas, at least one piece
RECURSIVE SplitFrom(_, _, _)
SplitFrom(s, i, cur) ==
  IF i > Len(s) THEN <<cur>>
  ELSE IF s[i] = "," THEN <<cur>> \o SplitFrom(s, i + 1, <<>>)
  ELSE SplitFrom(s, i + 1, Append(cur, s[i]))

Split(s) == SplitFrom(s, 1, <<>>)

\* fmt.Sprintf("%d", n)
RECURSIVE FormatNat(_)
FormatNat(n) ==
  IF n < 10 THEN <<Digits[n + 1]>>
  ELSE Append(FormatNat(n \div 10), Digits[(n % 10) + 1])

FormatInt(n) == IF n < 0 THEN <<"-">> \o FormatNat(0 - n) ELSE FormatNat(n)

IsDigit(c) == \E i \in DOMAIN Digits : Digits[i] = c

DigitVal(c) == (CHOOSE i \in DOMAIN Digits : Digits[i] = c) - 1

RECURSIVE DigitsVal(_, _)
DigitsVal(s, acc) ==
  IF s = <<>> THEN acc ELSE DigitsVal(Tail(s), acc * 10 + DigitVal(Head(s)))

\* strconv.ParseInt(a, 10, 64): an optional sign, then one or more digits
ParseInt(a) ==
  LET signed == a # <<>> /\ Head(a) \in {"-", "+"}
      body == IF signed THEN Tail(a) ELSE a
  IN IF body = <<>> \/ \E i \in DOMAIN body : ~IsDigit(body[i])
     THEN [ok |-> FALSE, i |-> 0]
     ELSE [ok |-> TRUE,
           i |-> IF signed /\ Head(a) = "-"
                 THEN 0 - DigitsVal(body, 0) ELSE DigitsVal(body, 0)]

T_dn == <<"d","n">>
T_TRUE == <<"T","R","U","E">>
T_FALSE == <<"F","A","L","S","E">>
T_omitempty == <<"o","m","i","t","e","m","p","t","y">>
T_ro == <<"r","o">>
T_dash == <<"-">>

\* ------------------------------------------------------------------ values

StringV(s) == [k |-> "string", s |-> s]
IntV(i) == [k |-> "int", i |-> i]
BoolV(b) == [k |-> "bool", b |-> b]
BytesV(s) == [k |-> "bytes", nil |-> FALSE, s |-> s]
NilBytes == [k |-> "bytes", nil |-> TRUE, s |-> <<>>]
PtrV(x) == [k |-> "ptr", nil |-> FALSE, elem |-> x]
SliceV(et, xs) == [k |-> "slice", nil |-> FALSE, et |-> et, elems |-> xs]
NilSlice(et) == [k |-> "slice", nil |-> TRUE, et |-> et, elems |-> <<>>]
BinEncV(w, s) == [k |-> "binenc", wantErr |-> w, Value |-> s]
MapV == [k |-> "map"]
StructV(fs) == [k |-> "struct", fields |-> fs]

\* the zero value of an element kind (reflect.New(t).Elem())
ZeroOfKind(et) ==
  CASE et = "string" -> StringV(<<>>)
    [] et = "int" -> IntV(0)
    [] et = "bool" -> BoolV(FALSE)

NilPtr(et) == [k |-> "ptr", nil |-> TRUE, elem |-> ZeroOfKind(et)]

\* reflect.Value.IsZero
RECURSIVE IsZero(_)
IsZero(x) ==
  CASE x.k = "string" -> x.s = <<>>
    [] x.k = "int" -> x.i = 0
    [] x.k = "bool" -> ~x.b
    [] x.k = "bytes" -> x.nil
    [] x.k = "ptr" -> x.nil
    [] x.k = "slice" -> x.nil
    [] x.k = "binenc" -> ~x.wantErr /\ x.Value = <<>>
    [] x.k = "map" -> TRUE
    [] x.k = "struct" -> \A i \in DOMAIN x.fields : IsZero(x.fields[i].v)

NoTag == [ok |-> FALSE, t |-> <<>>]
Tagged(t) == [ok |-> TRUE, t |-> t]

Field(name, tag, x) == [Name |-> name, Tag |-> tag, Anonymous |-> FALSE, v |-> x]
Embedded(name, tag, fs) ==
  [Name |-> name, Tag |-> tag, Anonymous |-> TRUE, v |-> StructV(fs)]

\* ------------------------------------------------------------------ tags

\* the omitempty / ro scan of parseTag: every part, the first included
HasMarker(parts, m) == \E i \in DOMAIN parts : TrimSpace(parts[i]) = m

parseTag_dashIsName(sf) ==
  LET first == <<ToLowerRune(sf.Name[1])>> \o Tail(sf.Name)
      name == IF Len(first) = 2 THEN ToLower(first) ELSE first
      parts == Split(sf.Tag.t)
  IN IF ~sf.Tag.ok
     THEN [attrName |-> name, ignored |-> FALSE,
           omitempty |-> FALSE, readOnly |-> FALSE]
     ELSE [attrName |-> parts[1], ignored |-> FALSE,
           omitempty |-> HasMarker(parts, T_omitempty),
           readOnly |-> HasMarker(parts, T_ro)]

parseTag(sf) ==
  LET first == <<ToLowerRune(sf.Name[1])>> \o Tail(sf.Name)
      name == IF Len(first) = 2 THEN ToLower(first) ELSE first
      fi == [attrName |-> name, ignored |-> FALSE,
             omitempty |-> FALSE, readOnly |-> FALSE]
      parts == Split(sf.Tag.t)
  IN IF ~sf.Tag.ok THEN fi
     ELSE IF TrimSpace(parts[1]) = T_dash THEN [fi EXCEPT !.ignored = TRUE]
     ELSE [attrName |-> parts[1], ignored |-> FALSE,
           omitempty |-> HasMarker(parts, T_omitempty),
           readOnly |-> HasMarker(parts, T_ro)]

\* ------------------------------------------------------------------ entries

NewEntryAttribute(name, values) ==
  [Name |-> name, Values |-> values, ByteValues |-> values]

emptyAttr(name) == [Name |-> name, Values |-> <<>>, ByteValues |-> <<>>]

NilAttr == [nil |-> TRUE]
SomeAttr(a) == [nil |-> FALSE, a |-> a]

NilEntry == [nil |-> TRUE]
EntryOf(dn, attrs) == [nil |-> FALSE, DN |-> dn, Attributes |-> attrs]

\* ------------------------------------------------------------------ encode

\* what encodeField returns: (attr, dn, err)
FieldRet(attr, dn, err) == [attr |-> attr, dn |-> dn, err |-> err]

RECURSIVE encodeField(_, _, _, _)
RECURSIVE encodeSliceLoop(_, _, _, _)

\* the loop of encodeField's slice branch, from element i on, attr so far
encodeSliceLoop(attrName, elems, i, attr) ==
  IF i > Len(elems)
  THEN FieldRet(IF attr.nil THEN SomeAttr(emptyAttr(attrName)) ELSE attr, <<>>, "nil")
  ELSE LET r == encodeField(attrName, elems[i], TRUE, TRUE)
       IN IF r.err # "nil" THEN FieldRet(attr, <<>>, r.err)
          ELSE IF attr.nil THEN encodeSliceLoop(attrName, elems, i + 1, r.attr)
          ELSE IF r.attr.nil THEN FieldRet(attr, <<>>, "panic")
          ELSE encodeSliceLoop(attrName, elems, i + 1,
                 SomeAttr([Name |-> attr.a.Name,
                           Values |-> attr.a.Values \o r.attr.a.Values,
                           ByteValues |-> attr.a.ByteValues \o r.attr.a.ByteValues]))

\* addressable: whether fv.Addr() may be taken (the record was reached
\* through a pointer, or fv is a slice element or a pointer's target)
encodeField(attrName, fv, omitEmpty, addressable) ==
  IF omitEmpty /\ IsZero(fv) THEN FieldRet(NilAttr, <<>>, "nil")
  ELSE IF ToLower(attrName) = T_dn THEN
    CASE fv.k = "string" -> FieldRet(NilAttr, fv.s, "nil")
      [] fv.k = "bytes" -> FieldRet(NilAttr, fv.s, "nil")
      [] OTHER -> FieldRet(NilAttr, <<>>, "ErrUnsupportedDNType")
  ELSE IF fv.k = "int"
    THEN FieldRet(SomeAttr(NewEntryAttribute(attrName, <<FormatInt(fv.i)>>)), <<>>, "nil")
  ELSE IF fv.k \in {"string", "bytes"}
    THEN FieldRet(SomeAttr(NewEntryAttribute(attrName, <<fv.s>>)), <<>>, "nil")
  ELSE IF fv.k = "bool"
    THEN FieldRet(SomeAttr(NewEntryAttribute(attrName,
                    <<IF fv.b THEN T_TRUE ELSE T_FALSE>>)), <<>>, "nil")
  ELSE IF ~addressable THEN FieldRet(NilAttr, <<>>, "panic")
  ELSE IF fv.k = "binenc" THEN
    IF fv.wantErr THEN FieldRet(NilAttr, <<>>, "err")
    ELSE FieldRet(SomeAttr(NewEntryAttribute(attrName, <<fv.Value>>)), <<>>, "nil")
  ELSE IF fv.k = "slice" THEN encodeSliceLoop(attrName, fv.elems, 1, NilAttr)
  ELSE IF fv.k = "ptr" THEN encodeField(attrName, fv.elem, omitEmpty, TRUE)
  ELSE FieldRet(NilAttr, <<>>, "ErrUnsupportedType")

\* what encodeStructFields returns: (attrs, dn, err)
StructRet(attrs, dn, err) == [attrs |-> attrs, dn |-> dn, err |-> err]

skipOmitted_never(fv, info) == FALSE

\* the omit-if-empty skip of encodeStructFields
skipOmitted(fv, info) ==
  IsZero(fv) /\ ToLower(info.attrName) # T_dn /\ info.omitempty

RECURSIVE encodeStructLoop(_, _, _, _, _)

\* the loop of encodeStructFields from field i on, with attrs and dn so far
encodeStructLoop(fs, i, attrs, dn, addressable) ==
  IF i > Len(fs) THEN StructRet(attrs, dn, "nil")
  ELSE
    LET ft == fs[i]
        fv == ft.v
        info == parseTag(ft)
    IN IF ~IsUpper(ft.Name[1]) THEN encodeStructLoop(fs, i + 1, attrs, dn, addressable)
       ELSE IF info.ignored \/ info.readOnly
         THEN encodeStructLoop(fs, i + 1, attrs, dn, addressable)
       ELSE IF skipOmitted(fv, info)
         THEN encodeStructLoop(fs, i + 1, attrs, dn, addressable)
       ELSE IF fv.k = "ptr" /\ fv.nil
         THEN encodeStructLoop(fs, i + 1, Append(attrs, emptyAttr(info.attrName)),
                               dn, addressable)
       ELSE IF ft.Anonymous THEN
         LET r == IF fv.k = "struct"
                  THEN encodeStructLoop(fv.fields, 1, <<>>, <<>>, addressable)
                  ELSE StructRet(<<>>, <<>>, "panic")
         IN IF r.err # "nil" THEN StructRet(<<>>, <<>>, r.err)
            ELSE encodeStructLoop(fs, i + 1, attrs \o r.attrs,
                                  IF r.dn # <<>> THEN r.dn ELSE dn, addressable)
       ELSE
         LET r == encodeField(info.attrName, fv, info.omitempty, addressable)
         IN IF r.err # "nil" THEN StructRet(attrs, dn, r.err)
            ELSE IF r.dn # <<>> THEN encodeStructLoop(fs, i + 1, attrs, r.dn, addressable)
            ELSE encodeStructLoop(fs, i + 1,
                   Append(attrs, IF r.attr.nil THEN emptyAttr(info.attrName)
                                 ELSE r.attr.a),
                   dn, addressable)

encodeStructFields(v, addressable) ==
  encodeStructLoop(v.fields, 1, <<>>, <<>>, addressable)

\* what Encode returns: (entry, err).  how: the argument is nil ("nil"), a
\* record passed by value ("value"), a pointer to a record ("ptr"), or a
\* value that is no record after following pointers ("nonstruct").
EncodeRet(entry, err) == [entry |-> entry, err |-> err]

Encode_noDNCheck(x, h) ==
  IF h = "nil" THEN EncodeRet(NilEntry, "v is nil")
  ELSE IF h = "nonstruct" THEN EncodeRet(NilEntry, "cannot decode non struct type")
  ELSE LET r == encodeStructFields(x, h = "ptr")
       IN IF r.err # "nil" THEN EncodeRet(NilEntry, r.err)
          ELSE EncodeRet(EntryOf(r.dn, r.attrs), "nil")

\* Encode with the identity check made before the walk's error is looked at
Encode_dnCheckFirst(x, h) ==
  IF h = "nil" THEN EncodeRet(NilEntry, "v is nil")
  ELSE IF h = "nonstruct" THEN EncodeRet(NilEntry, "cannot decode non struct type")
  ELSE LET r == encodeStructFields(x, h = "ptr")
       IN IF r.dn = <<>> /\ r.err # "panic" THEN EncodeRet(NilEntry, "ErrNoDN")
          ELSE IF r.err # "nil" THEN EncodeRet(NilEntry, r.err)
          ELSE EncodeRet(EntryOf(r.dn, r.attrs), "nil")

Encode(v, how) ==
  IF how = "nil" THEN EncodeRet(NilEntry, "v is nil")
  ELSE IF how = "nonstruct" THEN EncodeRet(NilEntry, "cannot decode non struct type")
  ELSE LET r == encodeStructFields(v, how = "ptr")
       IN IF r.err # "nil" THEN EncodeRet(NilEntry, r.err)
          ELSE IF r.dn = <<>> THEN EncodeRet(NilEntry, "ErrNoDN")
          ELSE EncodeRet(EntryOf(r.dn, r.attrs), "nil")

\* ------------------------------------------------------------------ decode

\* what setValue leaves in v, and the error it returns
SetRet(x, err) == [v |-> x, err |-> err]

RECURSIVE setValue(_, _)
setValue(v0, a) ==
  LET v == IF IsZero(v0) /\ v0.k = "ptr" THEN PtrV(v0.elem) ELSE v0
  IN CASE v.k = "binenc" ->
            IF v.wantErr THEN SetRet(v, "err")
            ELSE SetRet([v EXCEPT !.Value = a], "nil")
       [] v.k = "int" ->
            LET p == ParseInt(a)
            IN IF p.ok THEN SetRet(IntV(p.i), "nil") ELSE SetRet(v, "ErrSyntax")
       [] v.k = "string" -> SetRet(StringV(a), "nil")
       [] v.k = "bool" -> SetRet(BoolV(ToUpper(a) = T_TRUE), "nil")
       [] v.k = "bytes" -> SetRet(BytesV(a), "nil")
       [] v.k = "ptr" ->
            LET r == setValue(v.elem, a)
            IN SetRet([v EXCEPT !.elem = r.v], r.err)
       [] OTHER -> SetRet(v, "nil")

getAttributeValues_anyName(x, attribute) ==
  IF x.Attributes = <<>> THEN [vals |-> <<>>, ok |-> FALSE]
  ELSE [vals |-> x.Attributes[1].Values, ok |-> TRUE]

\* what getAttributeValues returns: (values, ok)
getAttributeValues(e, attribute) ==
  LET hits == {i \in DOMAIN e.Attributes :
                 ToLower(e.Attributes[i].Name) = ToLower(attribute)}
  IN IF hits = {} THEN [vals |-> <<>>, ok |-> FALSE]
     ELSE [vals |-> e.Attributes[CHOOSE i \in hits : \A j \in hits : i <= j].Values,
           ok |-> TRUE]

\* the append loop of decodeStructField, from value i on
RECURSIVE decodeSliceLoop(_, _, _)
decodeSliceLoop(v, vals, i) ==
  IF i > Len(vals) THEN SetRet(v, "nil")
  ELSE LET r == setValue(ZeroOfKind(v.et), vals[i])
       IN IF r.err # "nil" THEN SetRet(v, r.err)
          ELSE decodeSliceLoop(SliceV(v.et, Append(v.elems, r.v)), vals, i + 1)

decodeStructField_lastValue(x, vals) ==
  IF x.k = "bytes" THEN
    IF Len(vals) > 0 THEN setValue(x, vals[1]) ELSE SetRet(x, "nil")
  ELSE IF x.k = "slice" THEN decodeSliceLoop(x, vals, 1)
  ELSE IF Len(vals) = 0 THEN SetRet(x, "nil")
  ELSE setValue(x, vals[Len(vals)])

decodeStructField(v, vals) ==
  IF v.k = "bytes" THEN
    IF Len(vals) > 0 THEN setValue(v, vals[1]) ELSE SetRet(v, "nil")
  ELSE IF v.k = "slice" THEN decodeSliceLoop(v, vals, 1)
  ELSE IF Len(vals) = 0 THEN SetRet(v, "nil")
  ELSE setValue(v, vals[1])

\* what decodeStruct leaves in the record's fields, and the error it returns
DecRet(fs, err) == [fields |-> fs, err |-> err]

RECURSIVE decodeStructLoop(_, _, _)

\* the loop of decodeStruct from field i on; fs holds the fields as mutated so far
decodeStructLoop(e, fs, i) ==
  IF i > Len(fs) THEN DecRet(fs, "nil")
  ELSE
    LET ft == fs[i]
        fv == ft.v
        info == parseTag(ft)
    IN IF ~IsUpper(ft.Name[1]) THEN decodeStructLoop(e, fs, i + 1)
       ELSE IF info.ignored THEN decodeStructLoop(e, fs, i + 1)
       ELSE IF ft.Anonymous THEN
         LET r == IF fv.k = "struct" THEN decodeStructLoop(e, fv.fields, 1)
                  ELSE DecRet(<<>>, "panic")
             fs2 == IF fv.k = "struct" THEN [fs EXCEPT ![i].v = StructV(r.fields)]
                    ELSE fs
         IN IF r.err # "nil" THEN DecRet(fs2, r.err)
            ELSE decodeStructLoop(e, fs2, i + 1)
       ELSE IF ToLower(info.attrName) = T_dn THEN
         LET r == setValue(fv, e.DN)
             fs2 == [fs EXCEPT ![i].v = r.v]
         IN IF r.err # "nil" THEN DecRet(fs2, r.err)
            ELSE decodeStructLoop(e, fs2, i + 1)
       ELSE
         LET g == getAttributeValues(e, info.attrName)
         IN IF ~g.ok THEN decodeStructLoop(e, fs, i + 1)
            ELSE LET r == decodeStructField(fv, g.vals)
                     fs2 == [fs EXCEPT ![i].v = r.v]
                 IN IF r.err # "nil" THEN DecRet(fs2, r.err)
                    ELSE decodeStructLoop(e, fs2, i + 1)

decodeStruct(e, v) == decodeStructLoop(e, v.fields, 1)

\* hasDN follows pointers first; a nil pointer leads to no record
RECURSIVE hasDN(_)
hasDN(v0) ==
  IF v0.k = "ptr" THEN ~v0.nil /\ hasDN(v0.elem)
  ELSE IF v0.k # "struct" THEN FALSE
  ELSE \E i \in DOMAIN v0.fields :
         \/ parseTag(v0.fields[i]).attrName = T_dn
         \/ (v0.fields[i].Anonymous /\ hasDN(v0.fields[i].v))

\* what Decode leaves in the target and the error it returns.  how: the
\* target is nil ("nil"), a record passed by value ("value"), a pointer to a
\* record ("ptr"), or a pointer to something that is no record ("nonstruct").
Decode(e, v, how) ==
  IF how = "nil" THEN SetRet(v, "cannot decode to nil value")
  ELSE IF how = "value" THEN SetRet(v, "ErrNotPointer")
  ELSE IF how = "nonstruct" THEN SetRet(v, "cannot decode non struct type")
  ELSE IF ~hasDN(v) THEN SetRet(v, "ErrNoDN")
  ELSE LET r == decodeStruct(e, v)
       IN SetRet(StructV(r.fields), r.err)

\* ------------------------------------------------------------------ inputs

\* reflect.New(t).Elem(): the zero record of v's shape
RECURSIVE New(_)
New(x) ==
  CASE x.k = "string" -> StringV(<<>>)
    [] x.k = "int" -> IntV(0)
    [] x.k = "bool" -> BoolV(FALSE)
    [] x.k = "bytes" -> NilBytes
    [] x.k = "ptr" -> [k |-> "ptr", nil |-> TRUE, elem |-> New(x.elem)]
    [] x.k = "slice" -> NilSlice(x.et)
    [] x.k = "binenc" -> BinEncV(FALSE, <<>>)
    [] x.k = "map" -> MapV
    [] x.k = "struct" ->
         StructV([i \in DOMAIN x.fields |-> [x.fields[i] EXCEPT !.v = New(@)]])

SeqsUpTo(S, n) == UNION {[1..m -> S] : m \in 0..n}

N_DN == <<"D","N">>
N_Id == <<"I","d">>
N_dn == <<"d","n">>
T_u == <<"u">>
T_x == <<"x">>

\* lists of text held by a []string field
StringLists == {NilSlice("string")} \cup
  {SliceV("string", [i \in DOMAIN xs |-> StringV(xs[i])]) :
     xs \in SeqsUpTo({<<>>, T_x}, MaxElems)}

\* fields of the records handed to Encode
EncLeafs ==
  {Field(N_DN, NoTag, StringV(s)) : s \in {<<>>, T_u}}
  \cup {Field(N_DN, NoTag, IntV(0)),
        Field(N_Id, Tagged(<<"D","N">>), StringV(T_u)),
        Field(N_DN, Tagged(T_dash), StringV(T_u)),
        Field(N_DN, Tagged(<<"d","n",",","o","m","i","t","e","m","p","t","y">>), IntV(0)),
        Field(N_DN, NoTag, NilPtr("string")),
        Field(N_DN, NoTag, BytesV(T_u)),
        Field(N_dn, NoTag, StringV(T_u))}
  \cup {Field(<<"S">>, NoTag, StringV(s)) : s \in {<<>>, T_x}}
  \cup {Field(<<"N">>, Tagged(<<"n",","," ","o","m","i","t","e","m","p","t","y">>), IntV(i)) :
          i \in {0, 4}}
  \cup {Field(<<"K">>, Tagged(T_dash), StringV(T_x)),
        Field(<<"R">>, Tagged(<<"r",",","r","o">>), StringV(T_x)),
        Field(<<"O">>, Tagged(T_omitempty), StringV(<<>>)),
        Field(<<"Q">>, Tagged(T_ro), StringV(T_x)),
        Field(<<"P">>, NoTag, NilPtr("string")),
        Field(<<"P">>, NoTag, PtrV(StringV(T_x))),
        Field(<<"B">>, NoTag, BoolV(TRUE)),
        Field(<<"R","a","w">>, NoTag, NilBytes),
        Field(<<"R","a","w">>, NoTag, BytesV(T_x)),
        Field(<<"E">>, NoTag, BinEncV(FALSE, T_x)),
        Field(<<"E">>, NoTag, BinEncV(TRUE, T_x)),
        Field(<<"M">>, NoTag, MapV)}
  \cup {Field(<<"L">>, NoTag, l) : l \in StringLists}

\* an embedded record T holding the fields fs: by value, by value and
\* ignored, by pointer, and a nil pointer
EmbedKinds == {"value", "ignored", "ptr", "nilptr"}

EmbedsOf(fs, kinds) ==
  {Embedded(<<"T">>, NoTag, fs) : k \in kinds \cap {"value"}}
  \cup {Embedded(<<"T">>, Tagged(T_dash), fs) : k \in kinds \cap {"ignored"}}
  \cup {[Name |-> <<"T">>, Tag |-> NoTag, Anonymous |-> TRUE,
         v |-> PtrV(StructV(fs))] : k \in kinds \cap {"ptr"}}
  \cup {[Name |-> <<"T">>, Tag |-> NoTag, Anonymous |-> TRUE,
         v |-> New(PtrV(StructV(fs)))] : k \in kinds \cap {"nilptr"}}

DistinctNames(fs) ==
  \A i, j \in DOMAIN fs : i # j => fs[i].Name # fs[j].Name

\* the field lists with exactly n leaf fields drawn from L, at most one
\* level of embedding
RECURSIVE FieldLists(_, _, _)
FieldLists(L, kinds, n) ==
  IF n = 0 THEN {<<>>}
  ELSE {<<f>> \o r : f \in L, r \in FieldLists(L, kinds, n - 1)}
       \cup UNION {
              {<<emb>> \o r :
                 emb \in UNION {EmbedsOf(fs, kinds) : fs \in [1..m -> L]},
                 r \in FieldLists(L, kinds, n - m)} : m \in 1..n}

\* the fields of an embedded record, reached through its pointer if need be
InnerFields(f) == IF f.v.k = "ptr" THEN f.v.elem.fields ELSE f.v.fields

\* the records of at most MaxFields leaf fields; a Go struct names each of
\* its fields differently
RecordsOver(L, kinds) ==
  {StructV(fs) : fs \in {g \in UNION {FieldLists(L, kinds, n) : n \in 1..MaxFields} :
                           /\ DistinctNames(g)
                           /\ \A i \in DOMAIN g :
                                g[i].Anonymous => DistinctNames(InnerFields(g[i]))}}

Records == RecordsOver(EncLeafs, EmbedKinds)

T_s == <<"s">>
T_w == <<"w">>

\* fields of the records Decode is handed as targets, with their values
\* before the call; all but the first four resolve to the attribute s
DecLeafs ==
  {Field(N_DN, NoTag, StringV(<<>>)),
   Field(N_Id, Tagged(<<"D","N">>), StringV(<<>>)),
   Field(N_DN, Tagged(T_dash), StringV(T_w)),
   Field(N_dn, NoTag, StringV(<<>>)),
   Field(<<"S">>, NoTag, StringV(T_w)),
   Field(<<"S">>, Tagged(T_dash), StringV(T_w)),
   Field(<<"A">>, Tagged(T_s), IntV(7)),
   Field(<<"P">>, Tagged(T_s), NilPtr("string")),
   Field(<<"P">>, Tagged(T_s), PtrV(StringV(T_w))),
   Field(<<"L">>, Tagged(T_s), NilSlice("string")),
   Field(<<"L">>, Tagged(T_s), SliceV("string", <<StringV(T_w)>>)),
   Field(<<"L","i">>, Tagged(T_s), NilSlice("int")),
   Field(<<"B">>, Tagged(T_s), BoolV(FALSE)),
   Field(<<"R","a","w">>, Tagged(T_s), NilBytes),
   Field(<<"E">>, Tagged(T_s), BinEncV(FALSE, <<>>)),
   Field(<<"E">>, Tagged(T_s), BinEncV(TRUE, <<>>))}

Targets == RecordsOver(DecLeafs, {"value", "ignored"})

\* the hand-built Entries: an identity string and at most one attribute
AttrValues == SeqsUpTo({<<"4">>, T_x, <<"t","r","u","e">>}, MaxVals)

Entries ==
  {EntryOf(dn, as) :
     dn \in {<<>>, T_u},
     as \in {<<>>} \cup {<<NewEntryAttribute(n, vals)>> :
                            n \in {<<"S">>, <<"k">>}, vals \in AttrValues}}

\* ------------------------------------------------------------------ batch

\* Marshal(v) for a Go value: DefaultEncoder.Encode follows the pointer; a
\* nil pointer leads to no record
Marshal(x) ==
  IF x.k = "ptr" THEN Encode(x.elem, IF x.nil THEN "nonstruct" ELSE "ptr")
  ELSE IF x.k = "struct" THEN Encode(x, "value")
  ELSE Encode(x, "nonstruct")

\* what MarshalSlice returns: (out, err); calls counts the Marshal calls made
BatchRet(out, err, calls) == [out |-> out, err |-> err, calls |-> calls]

RECURSIVE MarshalSliceLoop(_, _, _)
\* the loop of MarshalSlice from element i on, with out so far
MarshalSliceLoop(elems, i, out) ==
  IF i > Len(elems) THEN BatchRet(out, "nil", i - 1)
  ELSE LET r == Marshal(elems[i])
       IN IF r.err # "nil" THEN BatchRet(<<>>, r.err, i)
          ELSE MarshalSliceLoop(elems, i + 1, Append(out, r.entry))

\* how: v is nil ("nil"), no slice ("nonslice"), or a slice ("slice")
MarshalSlice(x, h) ==
  IF h = "nil" THEN BatchRet(<<>>, "v is nil", 0)
  ELSE IF h = "nonslice" THEN BatchRet(<<>>, "v is not a slice pointer", 0)
  ELSE MarshalSliceLoop(x.elems, 1, <<>>)

\* Unmarshal(e, v) into the record behind the pointer v
Unmarshal(en, x) == Decode(en, x, "ptr")

\* a slice of records of one shape, held by value ("struct") or by
\* pointer ("ptr")
RecordSliceV(et, shape, xs) ==
  [k |-> "slice", nil |-> FALSE, et |-> et, shape |-> shape, elems |-> xs]

\* what UnmarshalSlice leaves in the target and returns; calls counts the
\* Unmarshal calls made
UnmarshalRet(x, err, calls) == [v |-> x, err |-> err, calls |-> calls]

RECURSIVE UnmarshalSliceLoop(_, _, _)
\* the loop of UnmarshalSlice from Entry i on, vv the target so far
UnmarshalSliceLoop(entries, i, vv) ==
  IF i > Len(entries) THEN UnmarshalRet(vv, "nil", i - 1)
  ELSE LET r == Unmarshal(entries[i], New(vv.shape))
       IN IF r.err # "nil" THEN UnmarshalRet(vv, r.err, i)
          ELSE UnmarshalSliceLoop(entries, i + 1,
                 [vv EXCEPT !.nil = FALSE,
                            !.elems = Append(@, IF vv.et = "ptr" THEN PtrV(r.v)
                                                ELSE r.v)])

\* how: v is nil ("nil"), no pointer ("value"), a pointer to something that
\* is no slice ("nonslice"), or a pointer to a slice ("ptr")
UnmarshalSlice(entries, x, h) ==
  IF h = "nil" THEN UnmarshalRet(x, "v is nil", 0)
  ELSE IF h = "value" THEN UnmarshalRet(x, "ErrNotPointer", 0)
  ELSE IF h = "nonslice" THEN UnmarshalRet(x, "v is not a slice pointer", 0)
  ELSE UnmarshalSliceLoop(entries, 1, x)

\* fields of the records handed to MarshalSlice
BatchLeafs ==
  {Field(N_DN, NoTag, StringV(s)) : s \in {<<>>, T_u}}
  \cup {Field(<<"S">>, NoTag, StringV(T_x)),
        Field(<<"B">>, NoTag, BoolV(TRUE)),
        Field(<<"E">>, NoTag, BinEncV(TRUE, T_x))}

BatchRecords == RecordsOver(BatchLeafs, {})

\* the slices handed to MarshalSlice: records by value or by pointer
BatchInputs ==
  {SliceV("interface", xs) :
     xs \in SeqsUpTo(BatchRecords \cup {PtrV(r) : r \in BatchRecords}, MaxBatch)}

\* the record shapes UnmarshalSlice allocates
BatchShapes ==
  {StructV(<<Field(N_DN, NoTag, StringV(<<>>)), Field(<<"A">>, Tagged(T_s), IntV(0))>>),
   StructV(<<Field(N_DN, NoTag, StringV(<<>>)), Field(<<"S">>, NoTag, StringV(<<>>))>>),
   StructV(<<Field(<<"S">>, NoTag, StringV(<<>>))>>)}

\* the targets handed to UnmarshalSlice: a nil slice, or a slice that holds a
\* record already
BatchTargets ==
  {[RecordSliceV(et, sh, <<>>) EXCEPT !.nil = TRUE] :
     et \in {"struct", "ptr"}, sh \in BatchShapes}
  \cup {RecordSliceV(et, sh, <<IF et = "ptr" THEN PtrV(sh) ELSE sh>>) :
          et \in {"struct", "ptr"}, sh \in BatchShapes}

\* the Entries handed to UnmarshalSlice
BatchEntries ==
  {EntryOf(dn, as) :
     dn \in {<<>>, T_u},
     as \in {<<>>, <<NewEntryAttribute(<<"S">>, <<<<"4">>>>)>>,
             <<NewEntryAttribute(<<"S">>, <<T_x>>)>>}}

EntryLists == SeqsUpTo(BatchEntries, MaxBatch)

\* ------------------------------------------------------------------ state

VARIABLES
  v,      \* the record handed to Encode
  how,    \* how the last call was handed its record or target
  res,    \* what Encode returned
  e,      \* the Entry handed to Decode
  t0,     \* Decode's target before the call
  t,      \* Decode's target after the call
  derr,   \* what Decode returned
  pc      \* "start", "encoded", "decoded"

vars == <<v, how, res, e, t0, t, derr, pc>>

Hows == {"nil", "value", "ptr", "nonstruct"}

Init ==
  /\ v \in Records
  /\ how = "none"
  /\ res = EncodeRet(NilEntry, "none")
  /\ e = NilEntry
  /\ t0 = v
  /\ t = v
  /\ derr = "none"
  /\ pc = "start"

\* Encode(v) on the record v
EncodeStep(h) ==
  /\ pc = "start"
  /\ res' = Encode(v, h)
  /\ how' = h
  /\ pc' = "encoded"
  /\ UNCHANGED <<v, e, t0, t, derr>>

\* Decode of the Entry just encoded into a fresh record of v's shape
DecodeEncoded ==
  /\ pc = "encoded"
  /\ ~res.entry.nil
  /\ e' = res.entry
  /\ t0' = New(v)
  /\ LET r == Decode(res.entry, New(v), "ptr")
     IN t' = r.v /\ derr' = r.err
  /\ pc' = "decoded"
  /\ UNCHANGED <<v, how, res>>

Next == (\E h \in Hows : EncodeStep(h)) \/ DecodeEncoded

Spec == Init /\ [][Next]_vars

\* a populated target and a hand-built Entry
InitDecode ==
  /\ v \in Targets
  /\ e \in Entries
  /\ how = "none"
  /\ res = EncodeRet(NilEntry, "none")
  /\ t0 = v
  /\ t = v
  /\ derr = "none"
  /\ pc = "start"

\* Decode(e, v) into the record v
DecodeStep(h) ==
  /\ pc = "start"
  /\ ~e.nil
  /\ LET r == Decode(e, v, h)
     IN t' = r.v /\ derr' = r.err
  /\ how' = h
  /\ pc' = "decoded"
  /\ UNCHANGED <<v, res, e, t0>>

NextDecode == (\E h \in Hows : DecodeStep(h)) \/ (\E h \in Hows : EncodeStep(h))

SpecDecode == InitDecode /\ [][NextDecode]_vars

\* a slice of records for MarshalSlice, or Entries and a target for
\* UnmarshalSlice
InitBatch ==
  /\ \/ (pc = "marshal" /\ v \in BatchInputs /\ e = <<>>)
     \/ (pc = "unmarshal" /\ v \in BatchTargets /\ e \in EntryLists)
  /\ how = "none"
  /\ res = BatchRet(<<>>, "none", 0)
  /\ t0 = v
  /\ t = v
  /\ derr = "none"

\* MarshalSlice(v)
MarshalSliceStep(h) ==
  /\ pc = "marshal"
  /\ res' = MarshalSlice(v, h)
  /\ how' = h
  /\ pc' = "marshalled"
  /\ UNCHANGED <<v, e, t0, t, derr>>

\* UnmarshalSlice(e, &v)
UnmarshalSliceStep(h) ==
  /\ pc = "unmarshal"
  /\ \E r \in {UnmarshalSlice(e, v, h)} :
       /\ t' = r.v
       /\ derr' = r.err
       /\ res' = [res EXCEPT !.calls = r.calls]
  /\ how' = h
  /\ pc' = "unmarshalled"
  /\ UNCHANGED <<v, e, t0>>

NextBatch ==
  \/ \E h \in {"nil", "nonslice", "slice"} : MarshalSliceStep(h)
  \/ \E h \in {"nil", "value", "nonslice", "ptr"} : UnmarshalSliceStep(h)

SpecBatch == InitBatch /\ [][NextBatch]_vars

\* ------------------------------------------------------------------ claims

Exported(f) == IsUpper(f.Name[1])

\* the field is mapped to the identity: its resolved name is dn, in any case
MapsToDN(f) == ToLower(parseTag(f).attrName) = T_dn

\* the field is reached by Encode's walk of its own record
EncodeWalks(f) == Exported(f) /\ ~parseTag(f).ignored /\ ~parseTag(f).readOnly

\* the field is reached by Decode's walk of its own record
DecodeWalks(f) == Exported(f) /\ ~parseTag(f).ignored

EmbeddedByValue(f) == f.Anonymous /\ f.v.k = "struct"

\* the positions of a record's leaf fields: <<i>> for its own field i,
\* <<i, j>> for field j of the record embedded by value as field i
LeafPaths(r) ==
  {<<i>> : i \in {k \in DOMAIN r.fields : ~r.fields[k].Anonymous}}
  \cup UNION {{<<i, j>> : j \in DOMAIN r.fields[i].v.fields} :
                i \in {k \in DOMAIN r.fields : EmbeddedByValue(r.fields[k])}}

FieldAt(r, p) ==
  IF Len(p) = 1 THEN r.fields[p[1]] ELSE r.fields[p[1]].v.fields[p[2]]

RemoveAt(q, i) == SubSeq(q, 1, i - 1) \o SubSeq(q, i + 1, Len(q))

\* the record without the leaf field at p
DropAt(r, p) ==
  IF Len(p) = 1 THEN StructV(RemoveAt(r.fields, p[1]))
  ELSE StructV([r.fields EXCEPT
                  ![p[1]].v = StructV(RemoveAt(r.fields[p[1]].v.fields, p[2]))])

\* Encode's walk reaches the leaf at p
EncodeWalksAt(r, p) ==
  /\ EncodeWalks(FieldAt(r, p))
  /\ Len(p) = 2 => EncodeWalks(r.fields[p[1]])

\* Decode's walk reaches the leaf at p
DecodeWalksAt(r, p) ==
  /\ DecodeWalks(FieldAt(r, p))
  /\ Len(p) = 2 => DecodeWalks(r.fields[p[1]])

IsText(x) == x.k \in {"string", "bytes"}

\* some walked field supplies a non-empty text identity
ResolvesIdentity(r) ==
  \E p \in LeafPaths(r) :
    /\ EncodeWalksAt(r, p)
    /\ MapsToDN(FieldAt(r, p))
    /\ IsText(FieldAt(r, p).v)
    /\ FieldAt(r, p).v.s # <<>>

\* the record was handed to the call as a record, by value or by pointer
IsRecordCall == how \in {"value", "ptr"}

\* ---- C1

\* the kinds the coercer has a rule for, custom encoders that succeed
RECURSIVE SupportedValue(_)
SupportedValue(x) ==
  CASE x.k \in {"string", "int", "bool", "bytes"} -> TRUE
    [] x.k = "ptr" -> x.elem.k \in {"string", "int", "bool"}
    [] x.k = "slice" -> TRUE
    [] x.k = "binenc" -> ~x.wantErr
    [] x.k = "struct" -> \A i \in DOMAIN x.fields :
                           /\ x.fields[i].Anonymous => x.fields[i].v.k = "struct"
                           /\ SupportedValue(x.fields[i].v)
    [] OTHER -> FALSE

\* every walked field mapped to the identity is a non-empty text, and there is one
ValidIdentity(r) ==
  /\ ResolvesIdentity(r)
  /\ \A p \in LeafPaths(r) :
       (EncodeWalksAt(r, p) /\ MapsToDN(FieldAt(r, p)))
         => (IsText(FieldAt(r, p).v) /\ FieldAt(r, p).v.s # <<>>)

\* C1: a record with a valid identity field and only supported field types,
\* encoded through a pointer and decoded into a fresh record of its shape,
\* comes back equal to the original: Encode succeeds, Decode succeeds and the
\* decoded record equals the encoded one.
C1_RoundTrip ==
  (how = "ptr" /\ SupportedValue(v) /\ ValidIdentity(v)) =>
    /\ pc = "encoded" => res.err = "nil"
    /\ pc = "decoded" => (derr = "nil" /\ t = v)

\* ---- C2

\* C2 as stated: a returned Entry has a non-empty DN, and a record none of
\* whose fields resolves to a non-empty identity gets the NoDN error and no
\* Entry.
C2_Original ==
  (pc = "encoded" /\ IsRecordCall) =>
    /\ ~res.entry.nil => res.entry.DN # <<>>
    /\ ~ResolvesIdentity(v) => (res.err = "ErrNoDN" /\ res.entry.nil)

\* C2 amended: a returned Entry has a non-empty DN; a record none of whose
\* fields resolves to a non-empty identity gets no Entry, and its error is
\* NoDN exactly when the walk over its fields ended without an error of its
\* own (a field's error comes first).
C2_NonEmptyDN ==
  (pc = "encoded" /\ IsRecordCall) =>
    /\ ~res.entry.nil => (res.err = "nil" /\ res.entry.DN # <<>>)
    /\ ~ResolvesIdentity(v) =>
         /\ res.entry.nil
         /\ res.err = "ErrNoDN" <=> encodeStructFields(v, how = "ptr").err = "nil"

\* a record with an attribute field and no identity is refused with NoDN
C2_Witness ==
  /\ pc = "encoded"
  /\ how = "ptr"
  /\ ~ResolvesIdentity(v)
  /\ \E p \in LeafPaths(v) : EncodeWalksAt(v, p) /\ ~MapsToDN(FieldAt(v, p))
  /\ res.err = "ErrNoDN"
  /\ res.entry.nil

\* ---- C4

\* the record's first field is walked, mapped to the identity, and neither
\* text nor a byte buffer
FirstFieldIsOtherIdentity(r) ==
  /\ ~r.fields[1].Anonymous
  /\ EncodeWalks(r.fields[1])
  /\ MapsToDN(r.fields[1])
  /\ ~IsText(r.fields[1].v)

\* C4: a field mapped to the identity whose type is neither text nor byte
\* buffer makes Encode fail with UnsupportedDNType and return no Entry.
\* Stated for the records whose first field is that field, where no earlier
\* field's failure can come first.
C4_OnlyTextIdentity ==
  (pc = "encoded" /\ IsRecordCall /\ FirstFieldIsOtherIdentity(v)) =>
    (res.err = "ErrUnsupportedDNType" /\ res.entry.nil)

\* ---- C5

\* the field is tagged omitempty, holds its type's zero value, and is not
\* mapped to the identity
OmittedField(f) == parseTag(f).omitempty /\ IsZero(f.v) /\ ~MapsToDN(f)

\* C5: a zero-valued omitempty field contributes nothing: Encode returns
\* what it returns for the record without that field.  A zero-valued
\* omitempty field mapped to the identity is not skipped: in a returned Entry
\* it leaves a trace the record without it does not have.
C5_OmitEmpty ==
  pc = "encoded" =>
    /\ \A p \in LeafPaths(v) :
         OmittedField(FieldAt(v, p)) => Encode(DropAt(v, p), how) = res
    /\ \A p \in LeafPaths(v) :
         ( /\ EncodeWalksAt(v, p)
           /\ MapsToDN(FieldAt(v, p))
           /\ parseTag(FieldAt(v, p)).omitempty
           /\ IsZero(FieldAt(v, p).v)
           /\ ~res.entry.nil )
         => Encode(DropAt(v, p), how) # res

\* an Entry was returned for a record with a zero-valued omitempty field,
\* and no attribute bears that field's name
C5_Witness ==
  /\ pc = "encoded"
  /\ ~res.entry.nil
  /\ \E p \in LeafPaths(v) :
       /\ EncodeWalksAt(v, p)
       /\ OmittedField(FieldAt(v, p))
       /\ \A i \in DOMAIN res.entry.Attributes :
            res.entry.Attributes[i].Name # parseTag(FieldAt(v, p)).attrName

\* ---- C3

\* the decode walk would populate an identity: an exported, non-ignored
\* field, own or embedded, whose resolved name is dn in any case
RECURSIVE WalkMapsIdentity(_)
WalkMapsIdentity(r) ==
  \E i \in DOMAIN r.fields :
    /\ DecodeWalks(r.fields[i])
    /\ IF r.fields[i].Anonymous
       THEN r.fields[i].v.k = "struct" /\ WalkMapsIdentity(r.fields[i].v)
       ELSE MapsToDN(r.fields[i])

\* C3: Decode into a record fails with NoDN exactly when the decode walk
\* would populate no identity field of the record's shape.
C3_NoDNMatchesWalk ==
  (pc = "decoded" /\ how = "ptr") =>
    (derr = "ErrNoDN" <=> ~WalkMapsIdentity(t0))

\* ---- C6

\* the field's metadata is "-"
Ignored(f) == f.Tag.ok /\ f.Tag.t = T_dash

\* the record without its "-" fields, own and embedded
RECURSIVE StripIgnored(_)
StripIgnored(r) ==
  LET keep == {i \in DOMAIN r.fields : ~Ignored(r.fields[i])}
      F[i \in 0..Len(r.fields)] ==
        IF i = 0 THEN <<>>
        ELSE IF i \notin keep THEN F[i - 1]
        ELSE IF EmbeddedByValue(r.fields[i])
          THEN Append(F[i - 1], [r.fields[i] EXCEPT !.v = StripIgnored(@)])
        ELSE Append(F[i - 1], r.fields[i])
  IN StructV(F[Len(r.fields)])

\* C6: a "-" field is left out in both directions: Encode returns what it
\* returns for the record without its "-" fields, and Decode leaves every
\* "-" field, own or embedded, as it was before the call.
C6_Ignored ==
  /\ pc = "encoded" => res = Encode(StripIgnored(v), how)
  /\ pc = "decoded" =>
       /\ \A i \in DOMAIN t0.fields :
            Ignored(t0.fields[i]) => t.fields[i] = t0.fields[i]
       /\ \A p \in LeafPaths(t0) :
            Ignored(FieldAt(t0, p)) => FieldAt(t, p) = FieldAt(t0, p)

\* the Entry has an attribute of that name, in any case
HasAttribute(x, name) ==
  \E i \in DOMAIN x.Attributes : ToLower(x.Attributes[i].Name) = ToLower(name)

\* the name parseTag gives a field that has no metadata
DefaultName(f) == parseTag([f EXCEPT !.Tag = NoTag]).attrName

\* a successful Decode changed the target while a "-" field kept its value
\* although the Entry holds values under the field's default name
C6_Witness ==
  /\ pc = "decoded"
  /\ how = "ptr"
  /\ derr = "nil"
  /\ t # t0
  /\ \E p \in LeafPaths(t0) :
       /\ Ignored(FieldAt(t0, p))
       /\ ~MapsToDN([FieldAt(t0, p) EXCEPT !.Tag = NoTag])
       /\ \E i \in DOMAIN e.Attributes :
            /\ ToLower(e.Attributes[i].Name) = ToLower(DefaultName(FieldAt(t0, p)))
            /\ e.Attributes[i].Values # <<>>
       /\ FieldAt(t, p) = FieldAt(t0, p)

\* ---- C7

\* C7: after a successful Decode, every field not mapped to the identity,
\* for which the Entry has no attribute of its resolved name in any case,
\* holds the value it held before the call.
C7_Untouched ==
  (pc = "decoded" /\ derr = "nil") =>
    \A p \in LeafPaths(t0) :
      (~MapsToDN(FieldAt(t0, p)) /\ ~HasAttribute(e, parseTag(FieldAt(t0, p)).attrName))
        => FieldAt(t, p) = FieldAt(t0, p)

\* a successful Decode changed the target, and a walked field holding a
\* non-zero value kept it because the Entry's only attribute bears another name
C7_Witness ==
  /\ pc = "decoded"
  /\ how = "ptr"
  /\ derr = "nil"
  /\ t # t0
  /\ e.Attributes # <<>>
  /\ e.Attributes[1].Values # <<>>
  /\ \E p \in LeafPaths(t0) :
       /\ DecodeWalksAt(t0, p)
       /\ ~MapsToDN(FieldAt(t0, p))
       /\ ~HasAttribute(e, parseTag(FieldAt(t0, p)).attrName)
       /\ ~IsZero(FieldAt(t0, p).v)
       /\ FieldAt(t, p) = FieldAt(t0, p)

\* ---- C8

\* the values of the first attribute of that name, in any case
MatchingValues(x, name) ==
  LET hits == {i \in DOMAIN x.Attributes :
                 ToLower(x.Attributes[i].Name) = ToLower(name)}
  IN x.Attributes[CHOOSE i \in hits : \A j \in hits : i <= j].Values

IsScalar(x) == x.k \in {"string", "int", "bool", "ptr", "binenc"}

\* a walked scalar field, not mapped to the identity, whose attribute the
\* Entry holds
ScalarWithAttribute(p) ==
  /\ DecodeWalksAt(t0, p)
  /\ IsScalar(FieldAt(t0, p).v)
  /\ ~MapsToDN(FieldAt(t0, p))
  /\ HasAttribute(e, parseTag(FieldAt(t0, p)).attrName)

\* C8: a scalar field decodes from the first value only: after a successful
\* Decode it holds the coercion of the first value into what it held, the
\* other values have no effect, and with no value it keeps what it held.
C8_FirstValue ==
  (pc = "decoded" /\ how = "ptr" /\ derr = "nil") =>
    \A p \in LeafPaths(t0) :
      ScalarWithAttribute(p) =>
        LET vals == MatchingValues(e, parseTag(FieldAt(t0, p)).attrName)
        IN IF vals = <<>> THEN FieldAt(t, p) = FieldAt(t0, p)
           ELSE /\ setValue(FieldAt(t0, p).v, vals[1]).err = "nil"
                /\ FieldAt(t, p).v = setValue(FieldAt(t0, p).v, vals[1]).v

\* an integer field decoded from the values 4 and x holds 4: the second
\* value, no number, was never coerced
C8_Witness ==
  /\ pc = "decoded"
  /\ how = "ptr"
  /\ derr = "nil"
  /\ \E p \in LeafPaths(t0) :
       /\ ScalarWithAttribute(p)
       /\ FieldAt(t0, p).v = IntV(7)
       /\ MatchingValues(e, parseTag(FieldAt(t0, p)).attrName) = <<<<"4">>, T_x>>
       /\ FieldAt(t, p).v = IntV(4)

\* ---- C9

\* a walked list field, not mapped to the identity, whose attribute the
\* Entry holds
ListWithAttribute(p) ==
  /\ DecodeWalksAt(t0, p)
  /\ FieldAt(t0, p).v.k = "slice"
  /\ ~MapsToDN(FieldAt(t0, p))
  /\ HasAttribute(e, parseTag(FieldAt(t0, p)).attrName)

\* C9: after a successful Decode of an attribute with n values into a list
\* field, whatever the target held, the list has exactly n elements, the
\* i-th being the coercion of the i-th value.
C9_ExactlyN ==
  (pc = "decoded" /\ how = "ptr" /\ derr = "nil") =>
    \A p \in LeafPaths(t0) :
      ListWithAttribute(p) =>
        LET vals == MatchingValues(e, parseTag(FieldAt(t0, p)).attrName)
            got == FieldAt(t, p).v
        IN /\ Len(got.elems) = Len(vals)
           /\ \A i \in DOMAIN vals :
                got.elems[i] = setValue(ZeroOfKind(got.et), vals[i]).v

\* ---- C10

\* the names of the attributes the flattened walk is to emit, in declaration
\* order: one per walked field that is neither omitted nor mapped to the
\* identity, an embedded record's names in the place of the embedding field
RECURSIVE ExpectedNames(_)
ExpectedNames(r) ==
  LET F[i \in 0..Len(r.fields)] ==
        IF i = 0 THEN <<>>
        ELSE LET f == r.fields[i]
             IN IF ~EncodeWalks(f) \/ OmittedField(f) THEN F[i - 1]
                ELSE IF f.Anonymous
                  THEN IF f.v.k = "struct" THEN F[i - 1] \o ExpectedNames(f.v)
                       ELSE IF f.v.nil THEN F[i - 1]
                       ELSE F[i - 1] \o ExpectedNames(f.v.elem)
                ELSE IF MapsToDN(f) THEN F[i - 1]
                ELSE Append(F[i - 1], parseTag(f).attrName)
  IN F[Len(r.fields)]

\* every walked field mapped to the identity, own or embedded, is a
\* non-empty text
RECURSIVE IdentityFieldsAreText(_)
IdentityFieldsAreText(r) ==
  \A i \in DOMAIN r.fields :
    LET f == r.fields[i]
    IN EncodeWalks(f) =>
         IF f.Anonymous
         THEN IF f.v.k = "struct" THEN IdentityFieldsAreText(f.v)
              ELSE f.v.nil \/ IdentityFieldsAreText(f.v.elem)
         ELSE MapsToDN(f) => (IsText(f.v) /\ f.v.s # <<>>)

\* C10: the attributes of a returned Entry are, in order, those of the
\* flattened walk: one per emitted non-identity field and nothing else, none
\* for an embedded record itself.  Stated for the records whose identity
\* fields are all non-empty text.
C10_Flattened ==
  (pc = "encoded" /\ ~res.entry.nil /\ IdentityFieldsAreText(v)) =>
    [i \in DOMAIN res.entry.Attributes |-> res.entry.Attributes[i].Name]
      = ExpectedNames(v)

\* ---- C11

RECURSIVE FieldOutcomes(_, _, _)
\* what each field Encode's walk coerces gives when coerced on its own, in
\* walk order from field i on: "nil" or the field's error; fields the walk
\* skips give nothing, a record embedded by value gives its fields' outcomes
FieldOutcomes(fs, i, addressable) ==
  IF i > Len(fs) THEN <<>>
  ELSE
    LET f == fs[i]
        info == parseTag(f)
        rest == FieldOutcomes(fs, i + 1, addressable)
    IN IF ~EncodeWalks(f) THEN rest
       ELSE IF IsZero(f.v) /\ ~MapsToDN(f) /\ info.omitempty THEN rest
       ELSE IF f.v.k = "ptr" /\ f.v.nil THEN <<"nil">> \o rest
       ELSE IF f.Anonymous THEN
         (IF f.v.k = "struct" THEN FieldOutcomes(f.v.fields, 1, addressable)
          ELSE <<"panic">>) \o rest
       ELSE <<encodeField(info.attrName, f.v, info.omitempty, addressable).err>> \o rest

\* the first outcome of the walk that is not "nil", "nil" when there is none
FirstFailure(o) ==
  IF \A i \in DOMAIN o : o[i] = "nil" THEN "nil"
  ELSE o[CHOOSE i \in DOMAIN o :
           o[i] # "nil" /\ \A j \in 1..(i - 1) : o[j] = "nil"]

\* Encode returned an error (it neither returned an Entry nor crashed)
ReturnedError == res.err \notin {"none", "nil", "panic"}

\* C11: whenever Encode of a record returns an error it returns no Entry;
\* the error is that of the first field, in walk order, whose coercion
\* fails, and it is NoDN only when the coercion of no field fails: a record
\* with no identity field and a field of unsupported type fails with that
\* field's UnsupportedType.
C11_FailFast ==
  (pc = "encoded" /\ IsRecordCall /\ ReturnedError) =>
    /\ res.entry.nil
    /\ LET first == FirstFailure(FieldOutcomes(v.fields, 1, how = "ptr"))
       IN /\ first # "nil" => res.err = first
          /\ first = "nil" => (res.err = "ErrNoDN" /\ ~ResolvesIdentity(v))

\* a record with no identity and two failing fields, the first of
\* unsupported type, the second a custom encoder that fails: Encode returned
\* UnsupportedType
C11_Witness ==
  /\ pc = "encoded" /\ how = "ptr"
  /\ ~ResolvesIdentity(v)
  /\ FieldOutcomes(v.fields, 1, TRUE) = <<"ErrUnsupportedType", "err">>
  /\ res.err = "ErrUnsupportedType"
  /\ res.entry.nil

\* ---- C12

\* the text a list element is coerced to
ElemText(x) ==
  CASE x.k = "string" -> x.s
    [] x.k = "int" -> FormatInt(x.i)
    [] x.k = "bool" -> IF x.b THEN T_TRUE ELSE T_FALSE
    [] OTHER -> <<>>

\* the coerced values of the list's non-zero elements, in element order
NonZeroValues(elems) ==
  LET nz == SelectSeq(elems, LAMBDA x : ~IsZero(x))
  IN [i \in DOMAIN nz |-> ElemText(nz[i])]

\* the leaf at p is a list field that Encode's walk coerces
EncodedList(r, p) ==
  /\ EncodeWalksAt(r, p)
  /\ FieldAt(r, p).v.k = "slice"
  /\ ~MapsToDN(FieldAt(r, p))
  /\ ~OmittedField(FieldAt(r, p))

\* C12: for every record with a valid identity and supported field types,
\* handed to Encode by pointer, Encode returns an Entry that holds, for
\* each list field, an attribute whose values are the coerced values of the
\* list's non-zero elements in element order (no values when no element
\* contributes), whatever the positions of the zero elements.
C12_ListValues ==
  (pc = "encoded" /\ how = "ptr" /\ SupportedValue(v) /\ ValidIdentity(v)) =>
    \A p \in LeafPaths(v) :
      EncodedList(v, p) =>
        /\ ~res.entry.nil
        /\ \E i \in DOMAIN res.entry.Attributes :
             LET a == res.entry.Attributes[i]
                 vals == NonZeroValues(FieldAt(v, p).v.elems)
             IN /\ a.Name = parseTag(FieldAt(v, p)).attrName
                /\ a.Values = vals
                /\ a.ByteValues = vals

\* ---- C13

\* the tag resolution the claim describes: the first token only names the
\* attribute (or, when it is "-", sets ignored), the flags come from the
\* tokens after it
ResolveTag(f) ==
  LET lowered == <<ToLowerRune(f.Name[1])>> \o Tail(f.Name)
      default == IF Len(lowered) = 2 THEN ToLower(lowered) ELSE lowered
      tokens == Split(f.Tag.t)
  IN IF ~f.Tag.ok
     THEN [attrName |-> default, ignored |-> FALSE,
           omitempty |-> FALSE, readOnly |-> FALSE]
     ELSE IF tokens[1] = T_dash
     THEN [attrName |-> default, ignored |-> TRUE,
           omitempty |-> FALSE, readOnly |-> FALSE]
     ELSE [attrName |-> tokens[1], ignored |-> FALSE,
           omitempty |-> \E i \in 2..Len(tokens) : TrimSpace(tokens[i]) = T_omitempty,
           readOnly |-> \E i \in 2..Len(tokens) : TrimSpace(tokens[i]) = T_ro]

\* every field of the record, the fields of embedded records included
AllFields(r) ==
  {r.fields[i] : i \in DOMAIN r.fields}
  \cup UNION {{InnerFields(r.fields[i])[j] : j \in DOMAIN InnerFields(r.fields[i])} :
               i \in {k \in DOMAIN r.fields : r.fields[k].Anonymous}}

\* C13: for every field of an encoded record, parseTag gives the default
\* name (first letter lower-cased, wholly lower-cased when two characters
\* long) without an annotation; with one, its first token only overrides the
\* name (or, when "-", sets ignored and nothing else), and omitempty and ro
\* are set only by the tokens after the first, so the single token
\* omitempty or ro names the attribute and sets no flag.
C13_TagResolution ==
  (pc = "encoded" /\ IsRecordCall) =>
    \A f \in AllFields(v) : parseTag(f) = ResolveTag(f)

\* ---- C14

\* i is the first element of xs whose outcome under Op is an error
FirstFailing(xs, i, Op(_)) ==
  /\ i \in DOMAIN xs
  /\ Op(xs[i]) # "nil"
  /\ \A j \in 1..(i - 1) : Op(xs[j]) = "nil"

MarshalErr(x) == Marshal(x).err

UnmarshalErr(en) == Unmarshal(en, New(v.shape)).err

\* the record UnmarshalSlice stores for the Entry en: by value or by pointer
Decoded(en) ==
  IF v.et = "ptr" THEN PtrV(Unmarshal(en, New(v.shape)).v)
  ELSE Unmarshal(en, New(v.shape)).v

\* MarshalSlice over the n records of v: n Entries, the i-th the Marshal of
\* the i-th record, or the error of the first failing record, no Entries and
\* no Marshal call after it
MarshalSliceInOrder ==
  (pc = "marshalled" /\ how = "slice") =>
    IF res.err = "nil"
    THEN /\ Len(res.out) = Len(v.elems)
         /\ \A i \in DOMAIN v.elems : res.out[i] = Marshal(v.elems[i]).entry
         /\ \A i \in DOMAIN v.elems : MarshalErr(v.elems[i]) = "nil"
    ELSE /\ res.out = <<>>
         /\ \E i \in DOMAIN v.elems :
              /\ FirstFailing(v.elems, i, MarshalErr)
              /\ res.err = MarshalErr(v.elems[i])
              /\ res.calls = i

\* UnmarshalSlice over the n Entries of e: the target holds exactly n
\* records, the i-th the decoding of the i-th Entry into a new record, or
\* the error of the first failing Entry and no Unmarshal call after it
UnmarshalSliceInOrder ==
  (pc = "unmarshalled" /\ how = "ptr") =>
    IF derr = "nil"
    THEN /\ Len(t.elems) = Len(e)
         /\ \A i \in DOMAIN e : t.elems[i] = Decoded(e[i])
         /\ \A i \in DOMAIN e : UnmarshalErr(e[i]) = "nil"
    ELSE \E i \in DOMAIN e :
           /\ FirstFailing(e, i, UnmarshalErr)
           /\ derr = UnmarshalErr(e[i])
           /\ res.calls = i

\* C14: the batch helpers work in order and stop at the first failure:
\* MarshalSlice over n records returns n Entries, the i-th the Marshal of the
\* i-th record, or the first failing record's error and no Entries, later
\* records not encoded; UnmarshalSlice over n Entries leaves the target
\* holding exactly n new records, the i-th the decoding of the i-th Entry,
\* for value and for pointer elements, or returns the first failing Entry's
\* error, later Entries not decoded.
C14_Batch == MarshalSliceInOrder /\ UnmarshalSliceInOrder

\* ---- C15

\* C15: for every record of supported field types whose encoding through a
\* pointer does not crash, Encode of the record handed by value gives the
\* outcome of Encode of a pointer to it: the same Entry or the same error,
\* and no crash, list, pointer and custom-encoder fields included.
C15_ValueAsPointer ==
  (pc = "encoded" /\ how = "value" /\ SupportedValue(v)
     /\ Encode(v, "ptr").err # "panic") =>
    res = Encode(v, "ptr")

====
